---------------------------- MODULE Spec2Model ----------------------------
(***************************************************************************)
(* A model of trustrl: parse_url (src/src/parse.rs), UrlTransformation     *)
(* and QueryStringMutator (src/src/transform.rs), UrlRenderer              *)
(* (src/src/render.rs) and the Cli, build_transformations, Processor and   *)
(* RenderContext of the command line tool (src/src/main.rs).               *)
(*                                                                         *)
(* Text is a sequence of one-character strings, so that parsing,           *)
(* serializing and percent-encoding are computed and not assumed.  An      *)
(* Option<T> is a sequence of length 0 (None) or 1 (Some).                 *)
(*                                                                         *)
(* The operators named Url... model the calls the program makes into the   *)
(* url crate (Url::parse, Url::set_scheme, ...), restricted to the text    *)
(* this model feeds them: ASCII letters, digits and the punctuation        *)
(* : / ? # @ = & + . % and the space; no "file" scheme, no IP-literal or   *)
(* all-digit host, no tab, newline or backslash.                           *)
(***************************************************************************)
EXTENDS Integers, Sequences, FiniteSets, TLC

VARIABLES
    \* --- parse_url applied to one raw input (SpecParse)
    raw,        \* the raw text handed to parse_url
    parsed,     \* None, or Some(trace of parse_url on raw)
    \* --- UrlTransformation::apply applied to a URL value (SpecTransform)
    turl,       \* Some(the URL value the caller holds), None after an Err
    tlog,       \* history: the last two applications, [op, before, res] each
    tn,         \* number of operations applied so far
    \* --- the command line tool (Spec)
    cli,        \* the parsed command line (struct Cli)
    lines,      \* the input lines still to be read
    pc,         \* position of the Processor
    cur,        \* Some(the text last handed to process_url)
    lineno,     \* the number of inputs handed to process_url or failed to read
    url,        \* the URL value threaded through Processor::transform
    opi,        \* number of transformations already applied to url
    count,      \* RenderMode::JsonList { count }
    stdout,     \* what was written to the writer, in order
    stderr,     \* what was reported with eprintln!, in order
    applied,    \* history: the applications made to the input last read
    \* --- UrlRenderer::render applied to a URL value (SpecRender)
    rurl,       \* Some(the URL value rendered)
    rfmt,       \* the template, as the list of its pieces (text, placeholders)
    rtext,      \* None, or Some(result of the template renderer)
    rjson,      \* None, or Some(result of the JSON renderer)
    \* --- build_transformations applied to a command line (SpecBuild)
    bargv,      \* the flags typed, in the order they were typed
    blist       \* None, or Some(the list build_transformations returned)

parseVars == <<raw, parsed>>
transVars == <<turl, tlog, tn>>
procVars  == <<cli, lines, pc, cur, lineno, url, opi, count, stdout, stderr, applied>>
renderVars == <<rurl, rfmt, rtext, rjson>>
buildVars == <<bargv, blist>>
vars == <<raw, parsed, turl, tlog, tn,
          cli, lines, pc, cur, lineno, url, opi, count, stdout, stderr, applied,
          rurl, rfmt, rtext, rjson, bargv, blist>>

(***************************************************************************)
(* Options and Results                                                     *)
(***************************************************************************)
None == <<>>
Some(x) == <<x>>
IsSome(o) == Len(o) = 1
IsNone(o) == Len(o) = 0
Unwrap(o) == o[1]
UnwrapOr(o, d) == IF Len(o) = 1 THEN o[1] ELSE d

\* The element of a one-element set: Pick({F(x) : x \in {v}}) is F(v), with
\* x bound to the value of v (a let binding of the source).
Pick(S) == CHOOSE y \in S : TRUE

Ok(u) == [ok |-> TRUE, url |-> u]
Err(e) == [ok |-> FALSE, err |-> e]

(***************************************************************************)
(* Text                                                                    *)
(***************************************************************************)
LowerSeq == <<"a","b","c","d","e","f","g","h","i","j","k","l","m",
              "n","o","p","q","r","s","t","u","v","w","x","y","z">>
UpperSeq == <<"A","B","C","D","E","F","G","H","I","J","K","L","M",
              "N","O","P","Q","R","S","T","U","V","W","X","Y","Z">>
DigitSeq == <<"0","1","2","3","4","5","6","7","8","9">>

Range(s) == {s[i] : i \in 1..Len(s)}
Lower == Range(LowerSeq)
Upper == Range(UpperSeq)
Digits == Range(DigitSeq)
Alpha == Lower \cup Upper

IndexIn(s, c) == CHOOSE i \in 1..Len(s) : s[i] = c
ToLowerChar(c) == IF c \in Upper THEN LowerSeq[IndexIn(UpperSeq, c)] ELSE c
ToLower(s) == [i \in 1..Len(s) |-> ToLowerChar(s[i])]
DigitVal(c) == IndexIn(DigitSeq, c) - 1

\* Index of the first character of s that is in set, Len(s) + 1 if none.
FirstIn(s, set) ==
    IF \E i \in 1..Len(s) : s[i] \in set
    THEN CHOOSE i \in 1..Len(s) : s[i] \in set /\ \A j \in 1..(i - 1) : s[j] \notin set
    ELSE Len(s) + 1
\* Index of the first character of s that is not in set, Len(s) + 1 if none.
FirstNotIn(s, set) ==
    IF \E i \in 1..Len(s) : s[i] \notin set
    THEN CHOOSE i \in 1..Len(s) : s[i] \notin set /\ \A j \in 1..(i - 1) : s[j] \in set
    ELSE Len(s) + 1
\* Index of the last character of s that is in set, 0 if none.
LastIn(s, set) ==
    IF \E i \in 1..Len(s) : s[i] \in set
    THEN CHOOSE i \in 1..Len(s) : s[i] \in set /\ \A j \in (i + 1)..Len(s) : s[j] \notin set
    ELSE 0
From(s, i) == SubSeq(s, i, Len(s))
Upto(s, i) == SubSeq(s, 1, i)
StartsWith(s, p) == Len(s) >= Len(p) /\ SubSeq(s, 1, Len(p)) = p

RECURSIVE Flatten(_)
Flatten(ss) == IF ss = <<>> THEN <<>> ELSE Head(ss) \o Flatten(Tail(ss))

RECURSIVE Join(_, _)
Join(ss, sep) ==
    IF ss = <<>> THEN <<>>
    ELSE IF Len(ss) = 1 THEN ss[1]
    ELSE ss[1] \o sep \o Join(Tail(ss), sep)

\* str::split(c): the pieces between the occurrences of c (always at least one).
RECURSIVE Split(_, _)
Split(s, c) ==
    LET i == FirstIn(s, {c}) IN
    IF i > Len(s) THEN <<s>>
    ELSE <<Upto(s, i - 1)>> \o Split(From(s, i + 1), c)

RECURSIVE ToNat(_, _)
ToNat(s, acc) == IF s = <<>> THEN acc ELSE ToNat(Tail(s), acc * 10 + DigitVal(Head(s)))

RECURSIVE ToDigits(_)
ToDigits(n) == IF n < 10 THEN <<DigitSeq[n + 1]>>
               ELSE ToDigits(n \div 10) \o <<DigitSeq[(n % 10) + 1]>>

(***************************************************************************)
(* Percent-encoding (crate percent_encoding) and                           *)
(* application/x-www-form-urlencoded (crate form_urlencoded), on the       *)
(* model's characters.                                                     *)
(***************************************************************************)
PercentCode(c) ==
    CASE c = " " -> <<"%","2","0">>
      [] c = "#" -> <<"%","2","3">>
      [] c = "%" -> <<"%","2","5">>
      [] c = "&" -> <<"%","2","6">>
      [] c = "+" -> <<"%","2","B">>
      [] c = "/" -> <<"%","2","F">>
      [] c = ":" -> <<"%","3","A">>
      [] c = "=" -> <<"%","3","D">>
      [] c = "?" -> <<"%","3","F">>
      [] c = "@" -> <<"%","4","0">>
      [] OTHER   -> <<c>>

Encode(s, set) == Flatten([i \in 1..Len(s) |-> IF s[i] \in set THEN PercentCode(s[i]) ELSE <<s[i]>>])

FRAGMENT_SET == {" "}
QUERY_SET == {" ", "#"}
PATH_SET == {" ", "#", "?"}
PATH_SEGMENT_SET == PATH_SET \cup {"/", "%"}
USERINFO_SET == PATH_SET \cup {"/", ":", "=", "@"}

\* form_urlencoded::byte_serialize: alphanumerics and * - . _ stay, the space
\* becomes +, everything else is percent-encoded.
FormEncode(s) ==
    Flatten([i \in 1..Len(s) |->
        IF s[i] = " " THEN <<"+">>
        ELSE IF s[i] \in Alpha \cup Digits \cup {"*", "-", ".", "_"} THEN <<s[i]>>
        ELSE PercentCode(s[i])])

Hex == Digits \cup {"A","B","C","D","E","F"}
PercentChar(h1, h2) ==
    CASE h1 = "2" /\ h2 = "0" -> " "
      [] h1 = "2" /\ h2 = "3" -> "#"
      [] h1 = "2" /\ h2 = "5" -> "%"
      [] h1 = "2" /\ h2 = "6" -> "&"
      [] h1 = "2" /\ h2 = "B" -> "+"
      [] h1 = "2" /\ h2 = "F" -> "/"
      [] h1 = "3" /\ h2 = "A" -> ":"
      [] h1 = "3" /\ h2 = "D" -> "="
      [] h1 = "3" /\ h2 = "F" -> "?"
      [] h1 = "4" /\ h2 = "0" -> "@"
      [] OTHER -> "?"

\* form_urlencoded::decode: + becomes the space, %XX is decoded.
RECURSIVE FormDecode(_)
FormDecode(s) ==
    IF s = <<>> THEN <<>>
    ELSE IF s[1] = "+" THEN <<" ">> \o FormDecode(Tail(s))
    ELSE IF s[1] = "%" /\ Len(s) >= 3 /\ s[2] \in Hex /\ s[3] \in Hex
         THEN <<PercentChar(s[2], s[3])>> \o FormDecode(From(s, 4))
    ELSE <<s[1]>> \o FormDecode(Tail(s))

\* form_urlencoded::parse: split on &, skip empty pieces, split each piece at
\* its first =, decode name and value.
FormParse(q) ==
    LET pieces == SelectSeq(Split(q, "&"), LAMBDA p : p # <<>>)
        Pair(p) == LET i == FirstIn(p, {"="}) IN
                   <<FormDecode(Upto(p, i - 1)), FormDecode(From(p, i + 1))>>
    IN  [i \in 1..Len(pieces) |-> Pair(pieces[i])]

\* form_urlencoded::Serializer::extend_pairs on an empty target.
FormSerialize(pairs) ==
    Join([i \in 1..Len(pairs) |-> FormEncode(pairs[i][1]) \o <<"=">> \o FormEncode(pairs[i][2])],
         <<"&">>)

(***************************************************************************)
(* The URL value (url::Url).  path holds the path segments of a            *)
(* base-capable URL: "/bar/zar" is <<bar, zar>>, "/" is <<"">> and the     *)
(* empty path is <<>>; opaque holds the path text of a                     *)
(* cannot-be-a-base URL.                                                   *)
(***************************************************************************)
MkUrl(scheme, username, password, host, port, cab, path, opaque, query, fragment) ==
    [scheme |-> scheme, username |-> username, password |-> password,
     host |-> host, port |-> port, cab |-> cab, path |-> path,
     opaque |-> opaque, query |-> query, fragment |-> fragment]

http  == <<"h","t","t","p">>
https == <<"h","t","t","p","s">>
ws    == <<"w","s">>
wss   == <<"w","s","s">>
ftp   == <<"f","t","p">>

\* url::parser::SchemeType::from, the "file" scheme left out.
IsSpecial(scheme) == scheme \in {http, https, ws, wss, ftp}

\* url::parser::default_port
DefaultPort(scheme) ==
    CASE scheme \in {http, ws}   -> Some(80)
      [] scheme \in {https, wss} -> Some(443)
      [] scheme = ftp            -> Some(21)
      [] OTHER                   -> None

PathText(segments) == Flatten([i \in 1..Len(segments) |-> <<"/">> \o segments[i]])

\* Url::cannot_be_a_base
CannotBeABase(u) == u.cab
\* Url::has_host: an authority with an empty host (a non-special "x://")
\* is kept as Some(<<>>) for the serialization and is no host.
HasHost(u) == IsSome(u.host) /\ u.host # Some(<<>>)
\* Url::path
UrlPath(u) == IF u.cab THEN u.opaque ELSE PathText(u.path)

\* Url::as_str / Display: the serialization.
Serialize(u) ==
    u.scheme \o <<":">>
    \o (IF IsSome(u.host)
        THEN <<"/","/">>
             \o u.username
             \o (IF IsSome(u.password) THEN <<":">> \o Unwrap(u.password) ELSE <<>>)
             \o (IF u.username # <<>> \/ IsSome(u.password) THEN <<"@">> ELSE <<>>)
             \o Unwrap(u.host)
             \o (IF IsSome(u.port) THEN <<":">> \o ToDigits(Unwrap(u.port)) ELSE <<>>)
        ELSE <<>>)
    \o UrlPath(u)
    \o (IF IsSome(u.query) THEN <<"?">> \o Unwrap(u.query) ELSE <<>>)
    \o (IF IsSome(u.fragment) THEN <<"#">> \o Unwrap(u.fragment) ELSE <<>>)

SchemeChars == Alpha \cup Digits \cup {"+", "-", "."}

\* url::parser::Parser::parse_scheme.  In the setter context the end of the
\* input ends the scheme; when parsing a URL only a ":" does.
ParseScheme(input, setter) ==
    IF input = <<>> \/ input[1] \notin Alpha THEN [ok |-> FALSE]
    ELSE LET i == FirstNotIn(input, SchemeChars) IN
         IF i <= Len(input)
         THEN IF input[i] = ":"
              THEN [ok |-> TRUE, scheme |-> ToLower(Upto(input, i - 1)), rest |-> From(input, i + 1)]
              ELSE [ok |-> FALSE]
         ELSE IF setter
              THEN [ok |-> TRUE, scheme |-> ToLower(input), rest |-> <<>>]
              ELSE [ok |-> FALSE]

Dot == <<".">>
DotDot == <<".", ".">>

\* url::parser::Parser::parse_path on the text after the path's first "/":
\* the segments, with "." and ".." segments resolved and each other segment
\* percent-encoded with the PATH set.
RECURSIVE PathFold(_, _)
PathFold(segs, rest) ==
    IF rest = <<>> THEN segs
    ELSE LET r == Head(rest)
             last == Len(rest) = 1
             popped == IF segs = <<>> THEN segs ELSE Upto(segs, Len(segs) - 1)
         IN  IF r = DotDot
             THEN PathFold(IF last THEN Append(popped, <<>>) ELSE popped, Tail(rest))
             ELSE IF r = Dot
             THEN PathFold(IF last THEN Append(segs, <<>>) ELSE segs, Tail(rest))
             ELSE PathFold(Append(segs, Encode(r, PATH_SET)), Tail(rest))
ParsePath(text) == PathFold(<<>>, Split(text, "/"))

\* url::parser::Parser::parse_path_start: the path of a URL with an
\* authority, from the text that follows the authority (it is empty or
\* starts with "/"; "?" and "#" were cut off by the caller).
ParsePathStart(special, text) ==
    IF text = <<>>
    THEN IF special THEN <<<<>>>> ELSE <<>>
    ELSE IF text[1] = "/" THEN ParsePath(Tail(text))
    ELSE ParsePath(text)

\* The forbidden host code points among the model's characters ("%" stands
\* for a percent-encoded forbidden character such as %20).
ForbiddenHostChars == {" ", "#", "/", ":", "?", "@", "%"}

\* url::Host::parse (special schemes: lower-cased domain) and
\* url::Host::parse_opaque (other schemes: kept as written).
ParseHost(special, text) ==
    IF special /\ text = <<>> THEN Err("EmptyHost")
    ELSE IF \E i \in 1..Len(text) : text[i] \in ForbiddenHostChars
    THEN Err("InvalidDomainCharacter")
    ELSE [ok |-> TRUE, host |-> IF special THEN ToLower(text) ELSE text]

MaxPort == 65535

\* url::parser::Parser::parse_port on the text after the host's ":".
ParsePort(scheme, text) ==
    IF \E i \in 1..Len(text) : text[i] \notin Digits THEN Err("InvalidPort")
    ELSE IF text = <<>> THEN [ok |-> TRUE, port |-> None]
    ELSE IF ToNat(text, 0) > MaxPort THEN Err("InvalidPort")
    ELSE [ok |-> TRUE,
          port |-> IF Some(ToNat(text, 0)) = DefaultPort(scheme) THEN None ELSE Some(ToNat(text, 0))]

\* url::parser::Parser::parse_userinfo on the authority text: what precedes
\* the last "@" is the user information, split at its first ":".
ParseUserinfo(auth, more) ==
    LET at == LastIn(auth, {"@"}) IN
    IF at = 0 THEN [ok |-> TRUE, username |-> <<>>, password |-> None, rest |-> auth]
    ELSE IF at = 1
    THEN IF Len(auth) = 1 /\ more THEN Err("EmptyHost")
         ELSE [ok |-> TRUE, username |-> <<>>, password |-> None, rest |-> Tail(auth)]
    ELSE LET info == Upto(auth, at - 1)
             colon == FirstIn(info, {":"})
             pass == From(info, colon + 1)
         IN  [ok |-> TRUE,
              username |-> Encode(Upto(info, colon - 1), USERINFO_SET),
              password |-> IF pass = <<>> THEN None ELSE Some(Encode(pass, USERINFO_SET)),
              rest |-> From(auth, at + 1)]

\* The query and the fragment of the text that follows the path
\* (Parser::parse_query_and_fragment): text is empty or starts with ? or #.
TailQuery(text) ==
    IF text # <<>> /\ text[1] = "?"
    THEN Some(Encode(SubSeq(text, 2, FirstIn(text, {"#"}) - 1), QUERY_SET \ {"#"}))
    ELSE None
TailFragment(text) ==
    LET h == FirstIn(text, {"#"}) IN
    IF h <= Len(text) THEN Some(Encode(From(text, h + 1), FRAGMENT_SET)) ELSE None

\* Parser::after_double_slash: authority, path, query and fragment.
HostAndPort(scheme, info, after) ==
    LET hp == info.rest
        colon == FirstIn(hp, {":"})
        tail == From(after, FirstIn(after, {"?", "#"}))
    IN  Pick({
        IF ~host.ok THEN host
        ELSE IF host.host = <<>> /\ colon <= Len(hp) THEN Err("EmptyHost")
        ELSE Pick({
             IF ~port.ok THEN port
             ELSE Ok(MkUrl(scheme, info.username, info.password, Some(host.host),
                           port.port, FALSE,
                           ParsePathStart(IsSpecial(scheme),
                                          Upto(after, FirstIn(after, {"?", "#"}) - 1)),
                           <<>>, TailQuery(tail), TailFragment(tail)))
                 : port \in {ParsePort(scheme, From(hp, colon + 1))}})
            : host \in {ParseHost(IsSpecial(scheme), Upto(hp, colon - 1))}})

AfterDoubleSlash(scheme, input) ==
    LET aEnd == FirstIn(input, {"/", "?", "#"})
        auth == Upto(input, aEnd - 1)
        after == From(input, aEnd)
    IN  Pick({
        IF ~info.ok THEN info ELSE HostAndPort(scheme, info, after)
            : info \in {ParseUserinfo(auth, after # <<>>)}})

\* Parser::parse_non_special without "//": a path-only URL when the text
\* starts with "/", a cannot-be-a-base URL otherwise.
NoAuthority(scheme, input) ==
    LET pEnd == FirstIn(input, {"?", "#"})
        ptext == Upto(input, pEnd - 1)
        after == From(input, pEnd)
    IN  IF ptext # <<>> /\ ptext[1] = "/"
        THEN Ok(MkUrl(scheme, <<>>, None, None, None, FALSE, ParsePath(Tail(ptext)), <<>>,
                      TailQuery(after), TailFragment(after)))
        ELSE Ok(MkUrl(scheme, <<>>, None, None, None, TRUE, <<>>, ptext,
                      TailQuery(after), TailFragment(after)))

\* Url::parse (no base URL).
UrlParse(input) ==
    Pick({
    IF ~sch.ok THEN Err("RelativeUrlWithoutBase")
    ELSE IF IsSpecial(sch.scheme)
    THEN AfterDoubleSlash(sch.scheme, From(sch.rest, FirstNotIn(sch.rest, {"/"})))
    ELSE IF StartsWith(sch.rest, <<"/", "/">>)
    THEN AfterDoubleSlash(sch.scheme, From(sch.rest, 3))
    ELSE NoAuthority(sch.scheme, sch.rest)
        : sch \in {ParseScheme(input, FALSE)}})

(***************************************************************************)
(* The setters of url::Url that UrlTransformation::apply calls.            *)
(***************************************************************************)
Fail == [ok |-> FALSE]

\* Url::set_scheme: the in-place scheme replacement.
UrlSetScheme(u, scheme) ==
    Pick({
    IF ~p.ok THEN Fail
    ELSE IF IsSpecial(p.scheme) # IsSpecial(u.scheme) THEN Fail
    ELSE IF p.rest # <<>> \/ (~HasHost(u) /\ IsSpecial(p.scheme)) THEN Fail
    ELSE Ok([u EXCEPT !.scheme = p.scheme,
                      !.port = IF u.port = DefaultPort(p.scheme) THEN None ELSE u.port])
        : p \in {ParseScheme(scheme, TRUE)}})

\* Url::set_host(Some(host))
UrlSetHost(u, host) ==
    LET special == IsSpecial(u.scheme)
        colon == FirstIn(host, {":"})
    IN  IF u.cab THEN Err("SetHostOnCannotBeABaseUrl")
        ELSE IF host = <<>> /\ special THEN Err("EmptyHost")
        ELSE IF colon = 1 THEN Err("InvalidDomainCharacter")
        ELSE Pick({
             IF ~h.ok THEN h ELSE Ok([u EXCEPT !.host = Some(h.host)])
                 : h \in {ParseHost(special, Upto(host, colon - 1))}})

\* The condition under which set_port, set_username and set_password refuse.
NoAuthoritySetters(u) == ~HasHost(u)

\* Url::set_port(Some(port))
UrlSetPort(u, port) ==
    IF NoAuthoritySetters(u) THEN Fail
    ELSE Ok([u EXCEPT !.port = IF Some(port) = DefaultPort(u.scheme) THEN None ELSE Some(port)])

\* Url::set_username
UrlSetUsername(u, username) ==
    IF NoAuthoritySetters(u) THEN Fail
    ELSE Ok([u EXCEPT !.username = Encode(username, USERINFO_SET)])

\* Url::set_password
UrlSetPassword(u, password) ==
    IF NoAuthoritySetters(u) THEN Fail
    ELSE Ok([u EXCEPT !.password = IF UnwrapOr(password, <<>>) = <<>> THEN None
                                   ELSE Some(Encode(Unwrap(password), USERINFO_SET))])

\* Url::set_path
UrlSetPath(u, path) ==
    IF u.cab
    THEN [u EXCEPT !.opaque = IF StartsWith(path, <<"/">>)
                              THEN <<"%","2","F">> \o Tail(path) ELSE path]
    ELSE [u EXCEPT !.path =
            IF path = <<>> THEN (IF IsSpecial(u.scheme) THEN <<<<>>>> ELSE <<>>)
            ELSE IF path[1] = "/" THEN ParsePath(Tail(path))
            ELSE IF ~IsSpecial(u.scheme) /\ path[1] \in {"?", "#"} THEN <<>>
            ELSE ParsePath(path)]

\* Url::set_fragment
UrlSetFragment(u, fragment) ==
    [u EXCEPT !.fragment = IF IsSome(fragment) THEN Some(Encode(Unwrap(fragment), FRAGMENT_SET))
                           ELSE None]

\* Url::set_query(None)
UrlClearQuery_DropsFragment(u) == [u EXCEPT !.query = None, !.fragment = None]

UrlClearQuery(u) == [u EXCEPT !.query = None]

\* PathSegmentsMut::pop
PathPop(segments) ==
    IF segments = <<>> \/ segments = <<<<>>>> THEN segments
    ELSE IF Len(segments) = 1 THEN <<<<>>>>
    ELSE Upto(segments, Len(segments) - 1)

\* PathSegmentsMut::push: "." and ".." are ignored; any other segment is
\* percent-encoded ("/" and "%" included) and appended after a "/" that is
\* added unless the path is "/".
PathPush(segments, segment) ==
    IF segment = Dot \/ segment = DotDot THEN segments
    ELSE IF segments = <<<<>>>> THEN <<Encode(segment, PATH_SEGMENT_SET)>>
    ELSE Append(segments, Encode(segment, PATH_SEGMENT_SET))

\* Url::query_pairs
UrlQueryPairs(u) == FormParse(UnwrapOr(u.query, <<>>))

\* append_pair as it would be if it replaced the pairs that have the key.
UrlAppendPair_ReplacesKey(u, name, value) ==
    [u EXCEPT !.query =
        Some(FormSerialize(Append(SelectSeq(FormParse(UnwrapOr(u.query, <<>>)),
                                            LAMBDA kv : kv[1] # name),
                                  <<name, value>>)))]

\* Url::query_pairs_mut().append_pair(name, value)
UrlAppendPair(u, name, value) ==
    LET old == UnwrapOr(u.query, <<>>) IN
    [u EXCEPT !.query = Some(old \o (IF old = <<>> THEN <<>> ELSE <<"&">>)
                             \o FormEncode(name) \o <<"=">> \o FormEncode(value))]

\* Url::query_pairs_mut().clear().extend_pairs(pairs).finish()
UrlReplacePairs(u, pairs) == [u EXCEPT !.query = Some(FormSerialize(pairs))]

(***************************************************************************)
(* regex::Regex, for the patterns "lit" and "^lit" of a literal text.      *)
(***************************************************************************)
Regex(anchored, lit) == [anchored |-> anchored, lit |-> lit]

\* Regex::is_match: the text contains a match of the pattern.
IsMatch(r, text) ==
    IF r.anchored THEN StartsWith(text, r.lit)
    ELSE \E i \in 1..(Len(text) + 1) : StartsWith(From(text, i), r.lit)

(***************************************************************************)
(* The order of String (byte-wise) and of (String, String), as used by     *)
(* Vec::sort.                                                              *)
(***************************************************************************)
AsciiSeq == <<" ", "#", "%", "&", "*", "+", "-", ".", "/">> \o DigitSeq
            \o <<":", "=", "?", "@">> \o UpperSeq \o <<"_">> \o LowerSeq
CharOrd(c) == IndexIn(AsciiSeq, c)

RECURSIVE StrLess(_, _)
StrLess(a, b) ==
    IF b = <<>> THEN FALSE
    ELSE IF a = <<>> THEN TRUE
    ELSE IF a[1] = b[1] THEN StrLess(Tail(a), Tail(b))
    ELSE CharOrd(a[1]) < CharOrd(b[1])

\* The order of the pairs as it would be if only the keys were compared.
PairLess_ByKey(p, q) == StrLess(p[1], q[1])

\* (String, String)::lt: by the first component, then by the second.
PairLess(p, q) == StrLess(p[1], q[1]) \/ (p[1] = q[1] /\ StrLess(p[2], q[2]))

\* Insert p after the elements that are not greater (a stable insertion).
RECURSIVE InsertSorted(_, _)
InsertSorted(sorted, p) ==
    IF sorted = <<>> THEN <<p>>
    ELSE IF PairLess(p, Head(sorted)) THEN <<p>> \o sorted
    ELSE <<Head(sorted)>> \o InsertSorted(Tail(sorted), p)

\* Vec<(String, String)>::sort
RECURSIVE SortFrom(_, _)
SortFrom(sorted, rest) ==
    IF rest = <<>> THEN sorted ELSE SortFrom(InsertSorted(sorted, Head(rest)), Tail(rest))
SortPairs(key_values) == SortFrom(<<>>, key_values)

(***************************************************************************)
(* src/src/transform.rs                                                    *)
(***************************************************************************)
\* TransformError
Transform(what) == [kind |-> "Transform", what |-> what]
ParseFailed(what, cause) == [kind |-> "Parse", what |-> what, cause |-> cause]

\* UrlTransformation, one constructor per variant.
SetScheme(scheme)       == [op |-> "SetScheme", scheme |-> scheme]
SetHost(host)           == [op |-> "SetHost", host |-> host]
SetPort(port)           == [op |-> "SetPort", port |-> port]
SetPath(path)           == [op |-> "SetPath", path |-> path]
SetUser(user)           == [op |-> "SetUser", user |-> user]
SetPassword(password)   == [op |-> "SetPassword", password |-> password]
SetFragment(fragment)   == [op |-> "SetFragment", fragment |-> fragment]
Redirect(path)          == [op |-> "Redirect", redirect |-> path]
AppendPath(path)        == [op |-> "AppendPath", segment |-> path]
AppendQueryString(k, v) == [op |-> "AppendQueryString", name |-> k, value |-> v]
SortQueryString         == [op |-> "SortQueryString"]
ClearQueryString        == [op |-> "ClearQueryString"]
AllowQueryString(rs)    == [op |-> "AllowQueryString", regexes |-> rs]
DenyQueryString(rs)     == [op |-> "DenyQueryString", regexes |-> rs]

\* QueryStringMutator::apply_allowlist
apply_allowlist(regexes, key_values) ==
    SelectSeq(key_values, LAMBDA kv : \E i \in 1..Len(regexes) : IsMatch(regexes[i], kv[1]))

\* apply_denylist as it would be if it kept the pairs that match.
apply_denylist_KeepsMatches(regexes, key_values) ==
    SelectSeq(key_values, LAMBDA kv : \E i \in 1..Len(regexes) : IsMatch(regexes[i], kv[1]))

\* QueryStringMutator::apply_denylist
apply_denylist(regexes, key_values) ==
    SelectSeq(key_values, LAMBDA kv : ~(\E i \in 1..Len(regexes) : IsMatch(regexes[i], kv[1])))

\* mutate as it would be without the test for an empty list of pairs.
mutate_KeepsEmptyQuery(policy, regexes, u) ==
    UrlReplacePairs(u, CASE policy = "Sort"      -> SortPairs(UrlQueryPairs(u))
                         [] policy = "Allowlist" -> apply_allowlist(regexes, UrlQueryPairs(u))
                         [] policy = "Denylist"  -> apply_denylist(regexes, UrlQueryPairs(u)))

mutate_KeepsPresentQuery(policy, regexes, u) ==
    IF IsNone(u.query) THEN u
    ELSE UrlReplacePairs(u, CASE policy = "Sort"      -> SortPairs(UrlQueryPairs(u))
                              [] policy = "Allowlist" -> apply_allowlist(regexes, UrlQueryPairs(u))
                              [] policy = "Denylist"  -> apply_denylist(regexes, UrlQueryPairs(u)))

\* QueryStringMutator::mutate; policy is "Sort", "Allowlist" or "Denylist".
mutate(policy, regexes, u) ==
    LET collected == UrlQueryPairs(u) IN
    Pick({
            IF key_values = <<>> THEN UrlClearQuery(u)
            ELSE UrlReplacePairs(u, key_values)
        : key_values \in {CASE policy = "Sort"      -> SortPairs(collected)
           [] policy = "Allowlist" -> apply_allowlist(regexes, collected)
           [] policy = "Denylist"  -> apply_denylist(regexes, collected)}})

\* str::split_once(':') of a serialization: the text after the first ":".
AfterFirstColon(text) == From(text, FirstIn(text, {":"}) + 1)

\* set_scheme as it would be with the textual re-parse alone.
set_scheme_ReparseOnly(u, scheme) ==
    Pick({IF reparsed.ok THEN Ok(reparsed.url) ELSE Err(Transform("scheme"))
            : reparsed \in {UrlParse(scheme \o <<":">> \o AfterFirstColon(Serialize(u)))}})

\* UrlTransformation::set_scheme
set_scheme(u, scheme) ==
    Pick({
    IF direct.ok THEN Ok(direct.url)
    ELSE Pick({
         IF FirstIn(text, {":"}) > Len(text) THEN Err(Transform("scheme"))
         ELSE Pick({
              IF reparsed.ok THEN Ok(reparsed.url) ELSE Err(Transform("scheme"))
                  : reparsed \in {UrlParse(scheme \o <<":">> \o AfterFirstColon(text))}})
             : text \in {Serialize(u)}})
        : direct \in {UrlSetScheme(u, scheme)}})

\* The Redirect arm of UrlTransformation::apply.
redirect(u, path) ==
    IF path # <<>> /\ path[1] = "/" THEN Ok(UrlSetPath(u, path))
    ELSE IF u.cab THEN Err(Transform("redirect"))
    ELSE Ok([u EXCEPT !.path = PathPush(PathPop(u.path), path)])

\* The AppendPath arm of UrlTransformation::apply.
append_path(u, path) ==
    IF u.cab THEN Err(Transform("append-path"))
    ELSE Ok([u EXCEPT !.path = PathPush(u.path, path)])

\* UrlTransformation::apply
apply(t, u) ==
    CASE t.op = "SetScheme" -> set_scheme(u, t.scheme)
      [] t.op = "SetHost" ->
            Pick({
                 IF r.ok THEN r ELSE Err(ParseFailed("host", r.err))
                : r \in {UrlSetHost(u, t.host)}})
      [] t.op = "SetPort" ->
            Pick({ IF r.ok THEN r ELSE Err(Transform("port"))
                : r \in {UrlSetPort(u, t.port)}})
      [] t.op = "SetPath" -> Ok(UrlSetPath(u, t.path))
      [] t.op = "SetUser" ->
            Pick({
                 IF r.ok THEN r ELSE Err(Transform("user"))
                : r \in {UrlSetUsername(u, t.user)}})
      [] t.op = "SetPassword" ->
            Pick({
                 IF r.ok THEN r ELSE Err(Transform("password"))
                : r \in {UrlSetPassword(u, t.password)}})
      [] t.op = "SetFragment" -> Ok(UrlSetFragment(u, t.fragment))
      [] t.op = "Redirect" -> redirect(u, t.redirect)
      [] t.op = "AppendPath" -> append_path(u, t.segment)
      [] t.op = "AppendQueryString" -> Ok(UrlAppendPair(u, t.name, t.value))
      [] t.op = "SortQueryString" -> Ok(mutate("Sort", <<>>, u))
      [] t.op = "ClearQueryString" -> Ok(UrlClearQuery(u))
      [] t.op = "AllowQueryString" -> Ok(mutate("Allowlist", t.regexes, u))
      [] t.op = "DenyQueryString" -> Ok(mutate("Denylist", t.regexes, u))

(***************************************************************************)
(* src/src/parse.rs                                                        *)
(***************************************************************************)
HttpPrefix == <<"h","t","t","p",":","/","/">>

\* The two arms of parse_url that retry.
RetriesCannotBeABase(strict) == strict.ok /\ CannotBeABase(strict.url)
RetriesNoScheme(strict, input) ==
    ~strict.ok /\ strict.err = "RelativeUrlWithoutBase" /\ ~StartsWith(input, <<"/">>)

\* The text the retry of parse_url parses: format!("http://{url}"), where
\* url is the parsed value in the first arm (the binding of the pattern
\* Ok(url) hides the parameter) and the raw input in the second.
RetryText(strict, input) ==
    IF RetriesCannotBeABase(strict) THEN HttpPrefix \o Serialize(strict.url)
    ELSE HttpPrefix \o input

\* What parse_url returns for the parse it ends with.
Checked(output) ==
    IF output.ok /\ CannotBeABase(output.url) THEN Err("unsupported URL")
    ELSE IF output.ok
    THEN IF output.url.scheme # <<>> THEN Ok(output.url)
         ELSE Pick({
                   IF r.ok THEN Ok(r.url) ELSE Err("panic: cannot-be-a-base")
                  : r \in {UrlSetScheme(output.url, http)}})
    ELSE Err(output.err)

\* parse_url as it would be with only the no-scheme retry: no arm for a
\* cannot-be-a-base value and no base-capability check.
ParseUrlTrace_NoBaseCheck(input) ==
    Pick({
    Pick({
         [strict |-> strict, retried |-> RetriesNoScheme(strict, input),
          retryText |-> IF RetriesNoScheme(strict, input) THEN Some(HttpPrefix \o input)
                        ELSE None,
          output |-> output,
          result |-> IF output.ok THEN Ok(output.url) ELSE Err(output.err)]
        : output \in {IF RetriesNoScheme(strict, input) THEN UrlParse(HttpPrefix \o input) ELSE strict}})
        : strict \in {UrlParse(input)}})

\* parse_url, with what it did on the way: the strict parse, whether the
\* "http://" retry was taken and on which text, the parse result it then
\* holds (output) and what it returns (result).
ParseUrlTrace(input) ==
    Pick({
    LET retried == RetriesCannotBeABase(strict) \/ RetriesNoScheme(strict, input) IN
    Pick({
         [strict |-> strict, retried |-> retried,
          retryText |-> IF retried THEN Some(RetryText(strict, input)) ELSE None,
          output |-> output, result |-> Checked(output)]
        : output \in {IF retried THEN UrlParse(RetryText(strict, input)) ELSE strict}})
        : strict \in {UrlParse(input)}})

\* parse_url
parse_url(input) == ParseUrlTrace(input).result

(***************************************************************************)
(* SpecParse: parse_url applied to one raw input.                          *)
(***************************************************************************)
\* The raw inputs: each is a prefix, user information, a host, a port and
\* a tail put together.
RawPrefixes == {<<>>, <<"w","s",":","/","/">>, <<"w","s",":">>, <<"w","s","s",":","/","/">>, <<"x",":">>, <<"X",":">>, <<"x",":","/","/">>, <<"x",":","/">>, <<"/">>}
RawUserinfos == {<<>>, <<"u","@">>, <<"u",":","p","@">>, <<":","p","@">>}
RawHosts == {<<>>, <<"a">>, <<"A",".","b">>}
RawPorts == {<<>>, <<":","8","0">>, <<":","8","1">>, <<":","x">>}
RawTails == {<<>>, <<"/">>, <<"/","b","/","c">>, <<"?","k","=","v">>, <<"/","b","?","k","=","v","#","f">>}
RawInputs == {p \o u \o h \o o \o t :
                p \in RawPrefixes, u \in RawUserinfos, h \in RawHosts,
                o \in RawPorts, t \in RawTails}

IdleTransform ==
    /\ turl = None /\ tlog = <<>> /\ tn = 0
IdleProcessor ==
    /\ cli = None /\ lines = <<>> /\ pc = "idle" /\ cur = None /\ lineno = 0 /\ url = None
    /\ opi = 0 /\ count = 0 /\ stdout = <<>> /\ stderr = <<>> /\ applied = <<>>
IdleParse ==
    /\ raw = <<>> /\ parsed = None
IdleRender ==
    /\ rurl = None /\ rfmt = <<>> /\ rtext = None /\ rjson = None
IdleBuild ==
    /\ bargv = <<>> /\ blist = None

InitParse ==
    /\ raw \in RawInputs
    /\ parsed = None
    /\ IdleTransform
    /\ IdleProcessor
    /\ IdleRender
    /\ IdleBuild

\* parse_url(raw)
ParseUrl ==
    /\ parsed = None
    /\ parsed' = Some(ParseUrlTrace(raw))
    /\ UNCHANGED <<raw, transVars, procVars, renderVars, buildVars>>

NextParse == ParseUrl
SpecParse == InitParse /\ [][NextParse]_vars

Trace == Unwrap(parsed)

\* C3: every URL parse_url returns is base-capable and has a non-empty
\* scheme, and whenever the parse it ends with (the retry, if one was made)
\* yields a cannot-be-a-base value, parse_url returns the "unsupported URL"
\* error.
C3_ParsedIsBaseCapable ==
    IsSome(parsed) =>
        /\ Trace.result.ok =>
                /\ ~CannotBeABase(Trace.result.url)
                /\ Trace.result.url.scheme # <<>>
        /\ (Trace.output.ok /\ CannotBeABase(Trace.output.url)) =>
                Trace.result = Err("unsupported URL")

\* C3 witness: parse_url returned a URL for an input whose strict parse
\* was a cannot-be-a-base value.
C3_Witness ==
    /\ IsSome(parsed)
    /\ Trace.strict.ok /\ CannotBeABase(Trace.strict.url)
    /\ Trace.retried
    /\ Trace.result.ok

\* C4: parse_url retries exactly when the strict parse gives a
\* cannot-be-a-base value or fails with RelativeUrlWithoutBase on an input
\* that does not start with "/"; the retry parses "http://" followed by the
\* raw input; an input that starts with "/" is not retried and fails; a
\* parse that is not retried is returned as it is.
C4_RetryParsesPrefixedRaw ==
    IsSome(parsed) =>
        /\ Trace.retried <=>
                \/ Trace.strict.ok /\ CannotBeABase(Trace.strict.url)
                \/ /\ ~Trace.strict.ok
                   /\ Trace.strict.err = "RelativeUrlWithoutBase"
                   /\ ~StartsWith(raw, <<"/">>)
        /\ Trace.retried => Trace.output = UrlParse(HttpPrefix \o raw)
        /\ StartsWith(raw, <<"/">>) => ~Trace.retried /\ ~Trace.result.ok
        /\ ~Trace.retried => Trace.output = Trace.strict

(***************************************************************************)
(* SpecTransform: UrlTransformation::apply applied, one operation after    *)
(* the other, to a URL value that parse_url returned.                      *)
(***************************************************************************)
MaxOps == 2

TransformRaws ==
    {<<"w","s",":","/","/","a","/","b","/","c","?","b","=","1","&","a","=","2","&","a","=","1","#","f">>,
     <<"w","s",":","/","/","u",":","p","@","a",":","8","1","/","b","/","?","a","b","=","3","&","a","&","c","=","2","&","a","=","1">>,
     <<"w","s",":","/","/","a">>,
     <<"w","s",":","/","/","a","/","b","?">>,
     <<"x",":","/","p","/","q","?","a","=","1">>,
     <<"x",":","/","/","a">>,
     <<"a","/","c","?","a","+","b","=","1","&","b","=","&","%","2","6","=","2","&","c">>}
StartUrls == {parse_url(r).url : r \in TransformRaws}

\* The arguments the operations are tried with.
SchemeArgs == {<<"w","s","s">>, <<"x">>, <<>>, <<"w","s",":">>, <<"x",":","y">>}
HostArgs == {<<"b">>, <<>>}
PortArgs == {80, 81}
PathArgs == {<<"/","c">>, <<"d">>}
UserArgs == {<<"u">>}
PasswordArgs == {None, Some(<<"p">>)}
FragmentArgs == {None, Some(<<"f">>)}
RedirectArgs == {<<"/","c">>, <<"d">>, <<".",".">>, <<"a"," ","b">>, <<>>, <<"/","c","/",".",".","/","d"," ","e">>}
SegmentArgs == {<<"d">>, <<"a"," ","b">>}
PairArgs == {<<<<"a">>, <<"1">>>>, <<<<"b">>, <<>>>>, <<<<"a"," ","b">>, <<"2">>>>}
RegexA == Regex(TRUE, <<"a">>)
RegexB == Regex(FALSE, <<"b">>)
RegexArgs == {<<>>, <<RegexA>>, <<RegexB>>, <<RegexA, RegexB>>}

InitTransform ==
    /\ turl \in {Some(u) : u \in StartUrls}
    /\ tlog = <<>>
    /\ tn = 0
    /\ IdleParse
    /\ IdleProcessor
    /\ IdleRender
    /\ IdleBuild

LastTwo(log) == IF Len(log) > 2 THEN From(log, Len(log) - 1) ELSE log

\* A URL value is held and the bound on operations is not reached.
Holding == tn < MaxOps /\ IsSome(turl)

\* transformation.apply(url) on the URL value held.
Step(t) ==
    /\ \E r \in {apply(t, Unwrap(turl))} :
        /\ tlog' = LastTwo(Append(tlog, [op |-> t, before |-> Unwrap(turl), res |-> r]))
        /\ turl' = IF r.ok THEN Some(r.url) ELSE None
    /\ tn' = tn + 1
    /\ UNCHANGED <<parseVars, procVars, renderVars, buildVars>>

ApplySetScheme == Holding /\ \E t \in {SetScheme(x) : x \in SchemeArgs} : Step(t)
ApplySetHost == Holding /\ \E t \in {SetHost(x) : x \in HostArgs} : Step(t)
ApplySetPort == Holding /\ \E t \in {SetPort(x) : x \in PortArgs} : Step(t)
ApplySetPath == Holding /\ \E t \in {SetPath(x) : x \in PathArgs} : Step(t)
ApplySetUser == Holding /\ \E t \in {SetUser(x) : x \in UserArgs} : Step(t)
ApplySetPassword == Holding /\ \E t \in {SetPassword(x) : x \in PasswordArgs} : Step(t)
ApplySetFragment == Holding /\ \E t \in {SetFragment(x) : x \in FragmentArgs} : Step(t)
ApplyRedirect == Holding /\ \E t \in {Redirect(x) : x \in RedirectArgs} : Step(t)
ApplyAppendPath == Holding /\ \E t \in {AppendPath(x) : x \in SegmentArgs} : Step(t)
ApplyAppendQueryString ==
    Holding /\ \E t \in {AppendQueryString(x[1], x[2]) : x \in PairArgs} : Step(t)
ApplySortQueryString == Holding /\ \E t \in {SortQueryString} : Step(t)
ApplyClearQueryString == Holding /\ \E t \in {ClearQueryString} : Step(t)
ApplyAllowQueryString == Holding /\ \E t \in {AllowQueryString(x) : x \in RegexArgs} : Step(t)
ApplyDenyQueryString == Holding /\ \E t \in {DenyQueryString(x) : x \in RegexArgs} : Step(t)

NextTransform ==
    \/ ApplySetScheme
    \/ ApplySetHost
    \/ ApplySetPort
    \/ ApplySetPath
    \/ ApplySetUser
    \/ ApplySetPassword
    \/ ApplySetFragment
    \/ ApplyRedirect
    \/ ApplyAppendPath
    \/ ApplyAppendQueryString
    \/ ApplySortQueryString
    \/ ApplyClearQueryString
    \/ ApplyAllowQueryString
    \/ ApplyDenyQueryString
SpecTransform == InitTransform /\ [][NextTransform]_vars

\* The last application and the one before it.
Last == tlog[Len(tlog)]
Before == tlog[Len(tlog) - 1]


\* An application of the operation op is the last one made.
Applied(op) == tlog # <<>> /\ Last.op.op = op

\* The query pairs before and after the last application.
PairsBefore == UrlQueryPairs(Last.before)
PairsAfter == UrlQueryPairs(Last.res.url)

\* Some pattern of the list has a match in the key.
MatchesAny(regexes, key) == \E i \in 1..Len(regexes) : IsMatch(regexes[i], key)

\* C5: after AllowQueryString(A) and then DenyQueryString(D), the query
\* holds exactly the pairs of the query before the two, in their order and
\* with repeated keys kept, whose key has a match of a pattern of A and of
\* no pattern of D.
C5_AllowThenDeny ==
    (Len(tlog) = 2 /\ Before.op.op = "AllowQueryString" /\ Last.op.op = "DenyQueryString") =>
        /\ Before.res.ok /\ Last.res.ok
        /\ Last.before = Before.res.url
        /\ PairsAfter =
              SelectSeq(UrlQueryPairs(Before.before),
                        LAMBDA kv : /\ MatchesAny(Before.op.regexes, kv[1])
                                    /\ ~MatchesAny(Last.op.regexes, kv[1]))

\* C5 witness: the allow list kept a pair that the deny list then removed,
\* and a pair with a repeated key went through both.
C5_Witness ==
    /\ Len(tlog) = 2
    /\ Before.op.op = "AllowQueryString" /\ Last.op.op = "DenyQueryString"
    /\ Len(PairsAfter) < Len(PairsBefore)
    /\ Len(PairsBefore) < Len(UrlQueryPairs(Before.before))
    /\ \E i, j \in 1..Len(PairsAfter) : i < j /\ PairsAfter[i][1] = PairsAfter[j][1]

\* The number of times the pair p occurs in the list.
CountOf(pairs, p) == Cardinality({i \in 1..Len(pairs) : pairs[i] = p})
SameMultiset(ps, qs) ==
    /\ Len(ps) = Len(qs)
    /\ \A i \in 1..Len(ps) : CountOf(ps, ps[i]) = CountOf(qs, ps[i])
KeyThenValueLeq(p, q) ==
    \/ StrLess(p[1], q[1])
    \/ p[1] = q[1] /\ (p[2] = q[2] \/ StrLess(p[2], q[2]))
NonDecreasing(pairs) ==
    \A i \in 1..(Len(pairs) - 1) : KeyThenValueLeq(pairs[i], pairs[i + 1])

\* C6: SortQueryString succeeds, the pairs of its result are the same
\* multiset as before, in non-decreasing order by key and then by value,
\* and SortQueryString applied a second time returns the same URL.
C6_SortIsSortedPermutation ==
    Applied("SortQueryString") =>
        /\ Last.res.ok
        /\ SameMultiset(PairsAfter, PairsBefore)
        /\ NonDecreasing(PairsAfter)
        /\ (Len(tlog) = 2 /\ Before.op.op = "SortQueryString") => Last.res.url = Last.before

\* C6 witness: SortQueryString was applied twice, the first time to a
\* query that was out of order and held a repeated key.
C6_Witness ==
    /\ Len(tlog) = 2
    /\ Before.op.op = "SortQueryString" /\ Last.op.op = "SortQueryString"
    /\ ~NonDecreasing(UrlQueryPairs(Before.before))
    /\ \E i, j \in 1..Len(PairsAfter) : i < j /\ PairsAfter[i][1] = PairsAfter[j][1]

QueryFilters == {"SortQueryString", "AllowQueryString", "DenyQueryString", "ClearQueryString"}

\* C7: ClearQueryString succeeds and leaves no query; SortQueryString,
\* AllowQueryString, DenyQueryString and ClearQueryString applied to a URL
\* without query succeed and leave it without query; of the operations on
\* the query only AppendQueryString makes a query present.
C7_ClearedQueryStaysAbsent ==
    tlog # <<>> =>
        /\ Last.op.op = "ClearQueryString" => Last.res.ok /\ IsNone(Last.res.url.query)
        /\ (Last.op.op \in QueryFilters /\ IsNone(Last.before.query)) =>
                Last.res.ok /\ IsNone(Last.res.url.query)
        /\ (Last.op.op = "AppendQueryString" /\ IsNone(Last.before.query)) =>
                Last.res.ok /\ IsSome(Last.res.url.query)

\* C7 witness: ClearQueryString removed a query that held pairs, and an
\* operation that filters or sorts the query followed it.
C7_Witness ==
    /\ Len(tlog) = 2
    /\ Before.op.op = "ClearQueryString"
    /\ UrlQueryPairs(Before.before) # <<>>
    /\ Last.op.op \in QueryFilters \ {"ClearQueryString"}

\* C8: AppendQueryString(k, v) succeeds and the pairs of its result are
\* the pairs before, in the same order, followed by the pair (k, v).
C8_AppendAddsLastPair ==
    Applied("AppendQueryString") =>
        /\ Last.res.ok
        /\ PairsAfter = Append(PairsBefore, <<Last.op.name, Last.op.value>>)

\* C8 witness: a pair was appended whose key the query already held.
C8_Witness ==
    /\ Applied("AppendQueryString")
    /\ \E i \in 1..Len(PairsBefore) : PairsBefore[i][1] = Last.op.name

\* C9: Redirect(p) on a URL with path segments: when p starts with "/" the
\* path of the result is p; otherwise the segments of the result are the
\* segments before without the last one, followed by p as one segment
\* (percent-encoded in both cases).
C9_RedirectReplacesLastSegment ==
    (Applied("Redirect") /\ ~Last.before.cab) =>
        /\ Last.res.ok
        /\ StartsWith(Last.op.redirect, <<"/">>) =>
                PathText(Last.res.url.path) = Encode(Last.op.redirect, PATH_SET)
        /\ ~StartsWith(Last.op.redirect, <<"/">>) =>
                Last.res.url.path =
                    Append(IF Last.before.path = <<>> THEN <<>>
                           ELSE Upto(Last.before.path, Len(Last.before.path) - 1),
                           Encode(Last.op.redirect, PATH_SEGMENT_SET))

\* C10: SetScheme(s) returns what the in-place replacement of the scheme
\* gives when that is accepted; otherwise it parses s, ":" and the text
\* after the first ":" of the serialized URL, returns the parsed URL when
\* that succeeds and fails with Transform("scheme") when it does not.
C10_SetSchemeTwoSteps ==
    Applied("SetScheme") =>
        IF UrlSetScheme(Last.before, Last.op.scheme).ok
        THEN Last.res = Ok(UrlSetScheme(Last.before, Last.op.scheme).url)
        ELSE IF UrlParse(Last.op.scheme \o <<":">> \o AfterFirstColon(Serialize(Last.before))).ok
        THEN Last.res = Ok(UrlParse(Last.op.scheme \o <<":">>
                                    \o AfterFirstColon(Serialize(Last.before))).url)
        ELSE Last.res = Err(Transform("scheme"))

\* C10 witness: the in-place replacement was rejected and the re-parse of
\* the rebuilt text gave the URL returned.
C10_Witness ==
    /\ Applied("SetScheme")
    /\ ~UrlSetScheme(Last.before, Last.op.scheme).ok
    /\ Last.res.ok
    /\ Last.res.url.scheme = Last.op.scheme

\* C16: the URL value held between the transformations is base-capable
\* and its scheme is not empty, whatever transformations succeeded before
\* (the URL given to the first one came from parse_url); and when
\* SetScheme(s) succeeds, the scheme of the URL it returns is s.
C16_BaseCapableThroughout ==
    /\ IsSome(turl) =>
        /\ ~CannotBeABase(Unwrap(turl))
        /\ Unwrap(turl).scheme # <<>>
    /\ (Applied("SetScheme") /\ Last.res.ok) => Last.res.url.scheme = Last.op.scheme

QueryMutators == {"SortQueryString", "AllowQueryString", "DenyQueryString"}

\* C14: SortQueryString, AllowQueryString and DenyQueryString succeed and
\* never return a URL whose query is present and empty: when the pairs of
\* the result are none - also when the URL given had no query, or a query
\* without pairs - the result has no query; SortQueryString returns a URL
\* without query as it was given.
C14_NoEmptyQuery ==
    \A i \in 1..Len(tlog) :
        tlog[i].op.op \in QueryMutators =>
            /\ tlog[i].res.ok
            /\ tlog[i].res.url.query # Some(<<>>)
            /\ UrlQueryPairs(tlog[i].res.url) = <<>> => IsNone(tlog[i].res.url.query)
            /\ UrlQueryPairs(tlog[i].before) = <<>> => IsNone(tlog[i].res.url.query)
            /\ (tlog[i].op.op = "SortQueryString" /\ IsNone(tlog[i].before.query))
                => tlog[i].res.url = tlog[i].before

\* C14 witness: DenyQueryString removed every pair of a query that held
\* pairs, and the result has no query.
C14_Witness ==
    /\ Applied("DenyQueryString")
    /\ PairsBefore # <<>>
    /\ Last.res.ok
    /\ IsNone(Last.res.url.query)

QueryOperations ==
    {"AppendQueryString", "SortQueryString", "ClearQueryString",
     "AllowQueryString", "DenyQueryString"}
\* Everything of a URL value but its query.
AllButQuery(u) == [u EXCEPT !.query = None]

\* C18: AppendQueryString, SortQueryString, ClearQueryString,
\* AllowQueryString and DenyQueryString succeed and return a URL whose
\* scheme, user, password, host, port, path and fragment are those of the
\* URL given; so it is after two of them in a row.
C18_QueryOperationsKeepTheRest ==
    /\ \A i \in 1..Len(tlog) :
        tlog[i].op.op \in QueryOperations =>
            /\ tlog[i].res.ok
            /\ AllButQuery(tlog[i].res.url) = AllButQuery(tlog[i].before)
    /\ (Len(tlog) = 2 /\ Before.op.op \in QueryOperations /\ Last.op.op \in QueryOperations)
        => /\ Last.before = Before.res.url
           /\ AllButQuery(Last.res.url) = AllButQuery(Before.before)

\* C18 witness: two operations on the query were applied in a row to a URL
\* with a fragment, the second removed the query, and the fragment is
\* still there.
C18_Witness ==
    /\ Len(tlog) = 2
    /\ Before.op.op \in QueryOperations /\ Last.op.op \in QueryOperations
    /\ IsSome(Before.before.fragment)
    /\ Before.res.url.query # Before.before.query
    /\ IsSome(Last.before.query) /\ IsNone(Last.res.url.query)
    /\ Last.res.url.fragment = Before.before.fragment

(***************************************************************************)
(* src/src/render.rs: UrlRenderer, the template renderer and the JSON      *)
(* renderer.                                                               *)
(***************************************************************************)
\* scheme_port: the arms of the match, in the order of the source.
scheme_port(scheme) ==
    CASE scheme \in {<<"h","t","t","p">>, <<"w","s">>, <<"r","t","m","p","t">>, <<"r","t","m","p","t","e">>} -> Some(80)
      [] scheme \in {<<"h","t","t","p","s">>, <<"w","s","s">>, <<"r","t","m","p","s">>, <<"r","t","m","p","t","s">>} -> Some(443)
      [] scheme = <<"f","t","p">> -> Some(21)
      [] scheme = <<"f","t","p","s">> -> Some(990)
      [] scheme \in {<<"s","c","p">>, <<"s","s","h">>, <<"s","f","t","p">>} -> Some(22)
      [] scheme = <<"s","m","t","p">> -> Some(25)
      [] scheme = <<"s","m","t","p","s">> -> Some(465)
      [] scheme = <<"t","e","l","n","e","t">> -> Some(21)
      [] scheme = <<"l","d","a","p">> -> Some(389)
      [] scheme = <<"l","d","a","p","s">> -> Some(636)
      [] scheme = <<"p","o","p","3">> -> Some(110)
      [] scheme = <<"p","o","p","3","s">> -> Some(995)
      [] scheme \in {<<"s","m","b">>, <<"s","m","b","s">>} -> Some(445)
      [] scheme = <<"r","t","s","p">> -> Some(554)
      [] scheme = <<"m","q","t","t">> -> Some(1883)
      [] scheme = <<"g","o","p","h","e","r">> -> Some(70)
      [] scheme \in {<<"r","t","m","p">>, <<"r","t","m","p","e">>} -> Some(1935)
      [] OTHER -> None

\* PortFormatter::port: the port of the URL, else the port of its scheme.
PortFormatter_port_TableFirst(u) ==
    IF IsSome(scheme_port(u.scheme)) THEN scheme_port(u.scheme) ELSE u.port

PortFormatter_port(u) ==
    IF IsSome(u.port) THEN u.port ELSE scheme_port(u.scheme)

\* The result of writing into the writer: Ok with the text written, or Err.
Rendered(out) == [ok |-> TRUE, out |-> out]
RenderError(e) == [ok |-> FALSE, err |-> e]

\* Url::host_str
UrlHostStr(u) == IF HasHost(u) THEN u.host ELSE None

\* UrlFormatter::fmt (impl FormatKey): what is written for a key, or
\* FormatKeyError::UnknownKey.
UrlFormatter_fmt_UnknownIsEmpty(u, key) ==
    CASE key = <<"p","o","r","t">> ->
            Rendered(IF IsSome(PortFormatter_port(u))
                     THEN ToDigits(Unwrap(PortFormatter_port(u))) ELSE <<>>)
      [] key = <<"u","r","l">> -> Rendered(Serialize(u))
      [] key = <<"s","c","h","e","m","e">> -> Rendered(u.scheme)
      [] key = <<"h","o","s","t">> -> Rendered(UnwrapOr(UrlHostStr(u), <<>>))
      [] key = <<"u","s","e","r">> -> Rendered(u.username)
      [] key = <<"p","a","s","s","w","o","r","d">> -> Rendered(UnwrapOr(u.password, <<>>))
      [] key = <<"p","a","t","h">> -> Rendered(UrlPath(u))
      [] key = <<"q","u","e","r","y">> -> Rendered(UnwrapOr(u.query, <<>>))
      [] key = <<"f","r","a","g","m","e","n","t">> -> Rendered(UnwrapOr(u.fragment, <<>>))
      [] OTHER -> Rendered(<<>>)

UrlFormatter_fmt(u, key) ==
    CASE key = <<"p","o","r","t">> ->
            Rendered(IF IsSome(PortFormatter_port(u))
                     THEN ToDigits(Unwrap(PortFormatter_port(u))) ELSE <<>>)
      [] key = <<"u","r","l">> -> Rendered(Serialize(u))
      [] key = <<"s","c","h","e","m","e">> -> Rendered(u.scheme)
      [] key = <<"h","o","s","t">> -> Rendered(UnwrapOr(UrlHostStr(u), <<>>))
      [] key = <<"u","s","e","r">> -> Rendered(u.username)
      [] key = <<"p","a","s","s","w","o","r","d">> -> Rendered(UnwrapOr(u.password, <<>>))
      [] key = <<"p","a","t","h">> -> Rendered(UrlPath(u))
      [] key = <<"q","u","e","r","y">> -> Rendered(UnwrapOr(u.query, <<>>))
      [] key = <<"f","r","a","g","m","e","n","t">> -> Rendered(UnwrapOr(u.fragment, <<>>))
      [] OTHER -> RenderError("UnknownKey")

\* Display of runtime_format::FormatArgs, as write!(writer, "{args}") runs
\* it: the literal text up to the next "{" is written as it is, the text
\* between a "{" and the next "}" is a key handed to UrlFormatter::fmt, a
\* "{" with no "}" after it is a parse error.  The formats of the model
\* hold no "{{", no "}" outside a placeholder and no ":" inside one.  The
\* formatting error reaches the caller as an io::Error (RenderError::Io);
\* what was written before the error is not modelled.
RECURSIVE FormatArgs(_, _)
FormatArgs(format, u) ==
    IF format = <<>> THEN Rendered(<<>>)
    ELSE IF Head(format) = "{"
    THEN IF FirstIn(format, {"}"}) > Len(format) THEN RenderError("Io")
         ELSE Pick({IF ~k.ok THEN RenderError("Io")
                    ELSE IF ~rest.ok THEN rest
                    ELSE Rendered(k.out \o rest.out)
                    : k \in {UrlFormatter_fmt(u, SubSeq(format, 2, FirstIn(format, {"}"}) - 1))},
                      rest \in {FormatArgs(From(format, FirstIn(format, {"}"}) + 1), u)}})
    ELSE Pick({IF ~rest.ok THEN rest
               ELSE Rendered(Upto(format, FirstIn(format, {"{"}) - 1) \o rest.out)
               : rest \in {FormatArgs(From(format, FirstIn(format, {"{"})), u)}})

\* UrlTemplate::render
UrlTemplate_render(format, u) == FormatArgs(format, u)

\* impl From<&Url> for JsonUrl
JsonUrl(u) ==
    [url |-> Serialize(u),
     user |-> IF u.username = <<>> THEN None ELSE Some(u.username),
     password |-> u.password,
     scheme |-> u.scheme,
     host |-> UrlHostStr(u),
     port |-> PortFormatter_port(u),
     path |-> UrlPath(u),
     query |-> u.query,
     params |-> [i \in 1..Len(UrlQueryPairs(u)) |->
                    [key |-> UrlQueryPairs(u)[i][1], value |-> UrlQueryPairs(u)[i][2]]]]

\* One member of the JSON object: a field of JsonUrl with its value.
Member(key, value) == [key |-> key, value |-> value]
\* #[serde(skip_serializing_if = "Option::is_none")]
SkipIfNone(key, option) == IF IsNone(option) THEN <<>> ELSE <<Member(key, Unwrap(option))>>

\* UrlRenderer::render_json: serde_json::to_writer of the JsonUrl.  The
\* document written is kept as the list of its members, in the order of
\* the fields of the struct; a number is kept as its decimal text.
render_json(u) ==
    Pick({Rendered(   <<Member("url", j.url), Member("scheme", j.scheme)>>
                   \o SkipIfNone("user", j.user)
                   \o SkipIfNone("password", j.password)
                   \o SkipIfNone("host", j.host)
                   \o SkipIfNone("port", IF IsSome(j.port)
                                         THEN Some(ToDigits(Unwrap(j.port))) ELSE None)
                   \o <<Member("path", j.path)>>
                   \o SkipIfNone("query", j.query)
                   \o <<Member("params", j.params)>>)
          : j \in {JsonUrl(u)}})

\* UrlRenderer: Template(format) or Json.
Template(format) == [renderer |-> "Template", format |-> format]
Json == [renderer |-> "Json"]

\* UrlRenderer::render
UrlRenderer_render(renderer, u) ==
    IF renderer.renderer = "Template"
    THEN UrlTemplate_render(renderer.format, u)
    ELSE render_json(u)

(***************************************************************************)
(* src/src/main.rs: the command line tool.                                 *)
(***************************************************************************)
\* struct Cli with no flag given.
NoFlags ==
    [url |-> None, urls_path |-> None,
     template |-> <<"{","u","r","l","}">>, output_json |-> FALSE,
     scheme |-> None, host |-> None, port |-> None, path |-> None, user |-> None,
     password |-> None, fragment |-> None, redirect |-> None, append_path |-> None,
     append_query_string |-> <<>>, clear_query_string |-> FALSE,
     allow_query_string |-> <<>>, deny_query_string |-> <<>>,
     sort_query_string |-> FALSE]

\* optional_string
optional_string(value) == IF value = <<>> THEN None ELSE Some(value)

\* parse_append_query_strings
parse_append_query_strings(inputs) ==
    [i \in 1..Len(inputs) |->
        LET eq == FirstIn(inputs[i], {"="}) IN
        AppendQueryString(Upto(inputs[i], eq - 1), From(inputs[i], eq + 1))]

\* build_transformations with the -q pairs pushed before the clear, allow
\* and deny operations.
build_transformations_AppendBeforeClear(c) ==
       (IF IsSome(c.scheme) THEN <<SetScheme(Unwrap(c.scheme))>> ELSE <<>>)
    \o (IF IsSome(c.host) THEN <<SetHost(Unwrap(c.host))>> ELSE <<>>)
    \o (IF IsSome(c.port) THEN <<SetPort(Unwrap(c.port))>> ELSE <<>>)
    \o (IF IsSome(c.path) THEN <<SetPath(Unwrap(c.path))>> ELSE <<>>)
    \o (IF IsSome(c.user) THEN <<SetUser(Unwrap(c.user))>> ELSE <<>>)
    \o (IF IsSome(c.password)
        THEN <<SetPassword(optional_string(Unwrap(c.password)))>> ELSE <<>>)
    \o (IF IsSome(c.fragment)
        THEN <<SetFragment(optional_string(Unwrap(c.fragment)))>> ELSE <<>>)
    \o (IF IsSome(c.redirect) THEN <<Redirect(Unwrap(c.redirect))>> ELSE <<>>)
    \o (IF IsSome(c.append_path) THEN <<AppendPath(Unwrap(c.append_path))>> ELSE <<>>)
    \o parse_append_query_strings(c.append_query_string)
    \o (IF c.clear_query_string THEN <<ClearQueryString>> ELSE <<>>)
    \o (IF c.allow_query_string # <<>>
        THEN <<AllowQueryString(c.allow_query_string)>> ELSE <<>>)
    \o (IF c.deny_query_string # <<>>
        THEN <<DenyQueryString(c.deny_query_string)>> ELSE <<>>)
    \o (IF c.sort_query_string THEN <<SortQueryString>> ELSE <<>>)

\* build_transformations
build_transformations(c) ==
       (IF IsSome(c.scheme) THEN <<SetScheme(Unwrap(c.scheme))>> ELSE <<>>)
    \o (IF IsSome(c.host) THEN <<SetHost(Unwrap(c.host))>> ELSE <<>>)
    \o (IF IsSome(c.port) THEN <<SetPort(Unwrap(c.port))>> ELSE <<>>)
    \o (IF IsSome(c.path) THEN <<SetPath(Unwrap(c.path))>> ELSE <<>>)
    \o (IF IsSome(c.user) THEN <<SetUser(Unwrap(c.user))>> ELSE <<>>)
    \o (IF IsSome(c.password)
        THEN <<SetPassword(optional_string(Unwrap(c.password)))>> ELSE <<>>)
    \o (IF IsSome(c.fragment)
        THEN <<SetFragment(optional_string(Unwrap(c.fragment)))>> ELSE <<>>)
    \o (IF IsSome(c.redirect) THEN <<Redirect(Unwrap(c.redirect))>> ELSE <<>>)
    \o (IF IsSome(c.append_path) THEN <<AppendPath(Unwrap(c.append_path))>> ELSE <<>>)
    \o (IF c.clear_query_string THEN <<ClearQueryString>> ELSE <<>>)
    \o (IF c.allow_query_string # <<>>
        THEN <<AllowQueryString(c.allow_query_string)>> ELSE <<>>)
    \o (IF c.deny_query_string # <<>>
        THEN <<DenyQueryString(c.deny_query_string)>> ELSE <<>>)
    \o parse_append_query_strings(c.append_query_string)
    \o (IF c.sort_query_string THEN <<SortQueryString>> ELSE <<>>)

\* Processor::transformations
Transformations == build_transformations(cli)

\* render_json_list of main: the RenderContext is in mode JsonList.
JsonList == cli.output_json /\ IsSome(cli.urls_path)

\* main: the renderer chosen from the command line.
Renderer == IF cli.output_json THEN Json ELSE Template(cli.template)

\* What is written to the writer and to the standard error stream, each
\* piece with the number of the input it was written for.
Written(what, text) == [t |-> what, line |-> lineno, text |-> text]
Reported(what) == [t |-> what, line |-> lineno]
\* What the renderer wrote for the URL u: text is the URL it was given,
\* serialized, and out is what reached the writer.
WrittenUrl(u, out) == [t |-> "url", line |-> lineno, text |-> Serialize(u), out |-> out]

\* RenderContext::render, before the renderer is called: the match on the
\* mode writes "[" or ", " in mode JsonList and nothing in mode Single.
Opening_AlwaysSeparator(jsonList, n) ==
    IF jsonList THEN <<Written(", ", <<>>)>> ELSE <<>>

Opening(jsonList, n) ==
    IF ~jsonList THEN <<>>
    ELSE IF n = 0 THEN <<Written("[", <<>>)>>
    ELSE <<Written(", ", <<>>)>>

\* One pass of the loop of Processor::transform,
\*     url = transformation.apply(url)?
\* returns: the "?" returned the Err from transform.
transform_step_KeepsGoing(t, u) ==
    Pick({[res |-> r, returns |-> FALSE, url |-> IF r.ok THEN Some(r.url) ELSE Some(u)]
            : r \in {apply(t, u)}})

transform_step(t, u) ==
    Pick({[res |-> r, returns |-> ~r.ok, url |-> IF r.ok THEN Some(r.url) ELSE None]
            : r \in {apply(t, u)}})

\* The command lines and the input lines of the model.
MaxLines == 2

InputLines ==
    {<<"a">>, <<"x",":","/","p">>, <<"/">>,
     <<"w","s",":","/","/","a","/","b","?","b","=","1","&","a","=","2">>}

CliFlags ==
    {NoFlags,
     [NoFlags EXCEPT !.host = Some(<<>>), !.append_path = Some(<<"d">>)],
     [NoFlags EXCEPT !.port = Some(81), !.redirect = Some(<<"d">>),
                     !.sort_query_string = TRUE],
     [NoFlags EXCEPT !.scheme = Some(<<"x",":","y">>), !.port = Some(81),
                     !.append_query_string = <<<<"a","=","1">>>>],
     [NoFlags EXCEPT !.fragment = Some(<<>>), !.clear_query_string = TRUE,
                     !.append_query_string = <<<<"k","=","v">>, <<"a">>>>,
                     !.sort_query_string = TRUE]}

RECURSIVE SeqsUpTo(_, _)
SeqsUpTo(S, n) ==
    IF n = 0 THEN {<<>>}
    ELSE SeqsUpTo(S, n - 1) \cup {Append(q, x) : q \in SeqsUpTo(S, n - 1), x \in S}

\* The templates given with --template, and the command lines they and
\* --to-json make (group outputs: at most one of the two is given).
TemplateArgs == {<<"{","u","r","l","}">>, <<"{","h","o","s","t","}",":","{","p","o","r","t","}">>, <<"{","o","t","h","e","r","}">>}
OutputFlags(f) ==
    {[f EXCEPT !.output_json = TRUE]} \cup {[f EXCEPT !.template = t] : t \in TemplateArgs}

\* The state when main is entered: Cli::parse() gave either a URL or a
\* path of URLs (group Input: required, not multiple).
Init ==
    /\ \E f \in UNION {OutputFlags(c) : c \in CliFlags} :
        \/ /\ \E l \in InputLines : cli = [f EXCEPT !.url = Some(l)]
           /\ lines = <<>>
        \/ /\ cli = [f EXCEPT !.urls_path = Some(<<"-">>)]
           /\ lines \in SeqsUpTo(InputLines, MaxLines)
    /\ pc = "main"
    /\ cur = None /\ lineno = 0 /\ url = None /\ opi = 0 /\ count = 0
    /\ stdout = <<>> /\ stderr = <<>> /\ applied = <<>>
    /\ IdleParse
    /\ IdleTransform
    /\ IdleRender
    /\ IdleBuild

\* Where the Processor goes on when process_url returns.
AfterProcessUrl == IF IsSome(cli.url) THEN "drop" ELSE "process_urls"

\* main, up to the call of process_url or of process_urls.
Main ==
    /\ pc = "main"
    /\ IF IsSome(cli.url)
       THEN cur' = cli.url /\ lineno' = 1 /\ pc' = "process_url"
       ELSE cur' = cur /\ lineno' = lineno /\ pc' = "process_urls"
    /\ UNCHANGED <<cli, lines, url, opi, count, stdout, stderr, applied, parseVars, transVars, renderVars, buildVars>>

\* process_urls: the reader gives the next line.
ReadLine ==
    /\ pc = "process_urls" /\ lines # <<>>
    /\ cur' = Some(Head(lines))
    /\ lines' = Tail(lines)
    /\ lineno' = lineno + 1
    /\ applied' = <<>>
    /\ pc' = "process_url"
    /\ UNCHANGED <<cli, url, opi, count, stdout, stderr, parseVars, transVars, renderVars, buildVars>>

\* process_urls: the reader fails on the next line; exit!.
ReadError ==
    /\ pc = "process_urls" /\ lines # <<>>
    /\ lines' = Tail(lines)
    /\ lineno' = lineno + 1
    /\ stderr' = Append(stderr, [t |-> "read_error", line |-> lineno + 1])
    /\ pc' = "exited"
    /\ UNCHANGED <<cli, cur, url, opi, count, stdout, applied, parseVars, transVars, renderVars, buildVars>>

\* process_urls: the reader is at its end; main returns.
EndOfInput ==
    /\ pc = "process_urls" /\ lines = <<>>
    /\ pc' = "drop"
    /\ UNCHANGED <<cli, lines, cur, lineno, url, opi, count, stdout, stderr, applied,
                   parseVars, transVars, renderVars, buildVars>>

\* process_url: parse_url gives a URL.
ProcessUrl ==
    /\ pc = "process_url"
    /\ \E r \in {parse_url(Unwrap(cur))} :
        /\ r.ok
        /\ url' = Some(r.url)
    /\ opi' = 0
    /\ pc' = "transform"
    /\ UNCHANGED <<cli, lines, cur, lineno, count, stdout, stderr, applied,
                   parseVars, transVars, renderVars, buildVars>>

\* process_url: parse_url gives an error; exit! ends the process.
ProcessUrlInvalid ==
    /\ pc = "process_url"
    /\ \E r \in {parse_url(Unwrap(cur))} : ~r.ok
    /\ stderr' = Append(stderr, Reported("invalid_url"))
    /\ pc' = "exited"
    /\ UNCHANGED <<cli, lines, cur, lineno, url, opi, count, stdout, applied,
                   parseVars, transVars, renderVars, buildVars>>

\* Processor::transform: the next transformation is applied and succeeds.
TransformApply ==
    /\ pc = "transform" /\ opi < Len(Transformations)
    /\ \E s \in {transform_step(Transformations[opi + 1], Unwrap(url))} :
        /\ ~s.returns
        /\ url' = s.url
        /\ applied' = Append(applied, [op |-> Transformations[opi + 1],
                                       input |-> Unwrap(url), res |-> s.res])
    /\ opi' = opi + 1
    /\ UNCHANGED <<cli, lines, pc, cur, lineno, count, stdout, stderr, parseVars, transVars, renderVars, buildVars>>

\* Processor::transform: the next transformation fails, transform returns
\* the Err and process_url reports it.
TransformFails ==
    /\ pc = "transform" /\ opi < Len(Transformations)
    /\ \E s \in {transform_step(Transformations[opi + 1], Unwrap(url))} :
        /\ s.returns
        /\ url' = s.url
        /\ applied' = Append(applied, [op |-> Transformations[opi + 1],
                                       input |-> Unwrap(url), res |-> s.res])
    /\ opi' = opi + 1
    /\ stderr' = Append(stderr, Reported("transform_error"))
    /\ pc' = AfterProcessUrl
    /\ UNCHANGED <<cli, lines, cur, lineno, count, stdout, parseVars, transVars, renderVars, buildVars>>

\* Processor::transform returns Ok(url); Processor::render and
\* RenderContext::render write the URL.
Render ==
    /\ pc = "transform" /\ opi = Len(Transformations)
    /\ \E r \in {UrlRenderer_render(Renderer, Unwrap(url))} :
        /\ r.ok
        /\ stdout' = stdout
                     \o Opening(JsonList, count)
                     \o <<WrittenUrl(Unwrap(url), r.out)>>
                     \o (IF JsonList THEN <<>> ELSE <<Written("newline", <<>>)>>)
    /\ count' = IF JsonList THEN count + 1 ELSE count
    /\ url' = None
    /\ pc' = AfterProcessUrl
    /\ UNCHANGED <<cli, lines, cur, lineno, opi, stderr, applied, parseVars, transVars, renderVars, buildVars>>

\* RenderContext::render returns the Err of self.renderer.render(..)?: the
\* opening was written, the count is not advanced, and Processor::render
\* reports "Rendering failed".  The template renderer fails on its format.
RenderFails ==
    /\ pc = "transform" /\ opi = Len(Transformations)
    /\ \E r \in {UrlRenderer_render(Renderer, Unwrap(url))} : ~r.ok
    /\ stdout' = stdout \o Opening(JsonList, count)
    /\ stderr' = Append(stderr, Reported("render_error"))
    /\ url' = None
    /\ pc' = AfterProcessUrl
    /\ UNCHANGED <<cli, lines, cur, lineno, opi, count, applied, parseVars, transVars, renderVars, buildVars>>

\* The same return when the writer refuses what the renderer writes (an
\* io::Error of W: Write, which any write may give): it is the renderer's
\* write that is let fail here, after the opening was written.
RenderWriteFails ==
    /\ pc = "transform" /\ opi = Len(Transformations)
    /\ \E r \in {UrlRenderer_render(Renderer, Unwrap(url))} : r.ok
    /\ stdout' = stdout \o Opening(JsonList, count)
    /\ stderr' = Append(stderr, Reported("render_error"))
    /\ url' = None
    /\ pc' = AfterProcessUrl
    /\ UNCHANGED <<cli, lines, cur, lineno, opi, count, applied, parseVars, transVars, renderVars, buildVars>>

\* main returns: the RenderContext is dropped.
Drop ==
    /\ pc = "drop"
    /\ stdout' = IF JsonList THEN Append(stdout, Written("]", <<>>)) ELSE stdout
    /\ pc' = "done"
    /\ UNCHANGED <<cli, lines, cur, lineno, url, opi, count, stderr, applied,
                   parseVars, transVars, renderVars, buildVars>>

Next ==
    \/ Main
    \/ ReadLine
    \/ ReadError
    \/ EndOfInput
    \/ ProcessUrl
    \/ ProcessUrlInvalid
    \/ TransformApply
    \/ TransformFails
    \/ Render
    \/ RenderFails
    \/ RenderWriteFails
    \/ Drop
Spec == Init /\ [][Next]_vars

\* The URL was written for the current input.
RenderedCurrent == \E i \in 1..Len(stdout) : stdout[i].t = "url" /\ stdout[i].line = lineno

\* C1: the applications made to an input are the transformations of the
\* list, in order and from the first; the first is applied to the URL
\* parse_url gave and each other one to the URL the one before returned;
\* an application that failed is the last one, and then no URL is held and
\* none is written for that input; a URL is written only after all the
\* transformations were applied, and it is the URL the last one returned.
C1_FailFastFold ==
    /\ \A i \in 1..Len(applied) :
        /\ applied[i].op = Transformations[i]
        /\ i = 1 => applied[i].input = parse_url(Unwrap(cur)).url
        /\ i > 1 => /\ applied[i - 1].res.ok
                    /\ applied[i].input = applied[i - 1].res.url
    /\ (applied # <<>> /\ ~applied[Len(applied)].res.ok) =>
        /\ url = None
        /\ pc # "transform"
        /\ ~RenderedCurrent
    /\ (pc \in {"transform", "process_urls", "drop", "done"} /\ RenderedCurrent) =>
        /\ Len(applied) = Len(Transformations)
        /\ \E i \in 1..Len(stdout) :
            /\ stdout[i].t = "url" /\ stdout[i].line = lineno
            /\ stdout[i].text =
                 Serialize(IF applied = <<>> THEN parse_url(Unwrap(cur)).url
                           ELSE applied[Len(applied)].res.url)

\* C1 witness: the second transformation of three failed on the URL the
\* first one returned, and the input was left.
C1_Witness ==
    /\ Len(applied) = 2
    /\ Len(Transformations) = 3
    /\ applied[1].res.ok /\ ~applied[2].res.ok
    /\ applied[1].res.url # applied[1].input
    /\ pc \in {"process_urls", "drop", "done"}

\* C2: with a path of URLs, a run that did not fail to read its input ends
\* only when every line was read: neither an invalid URL nor a failed
\* transformation ends it before.
C2_BatchContinuesAfterFailure ==
    (/\ IsSome(cli.urls_path)
     /\ pc \in {"done", "exited"}
     /\ \A i \in 1..Len(stderr) : stderr[i].t # "read_error")
        => lines = <<>>

\* The positions of stdout at which an element (a rendered URL) stands.
Elements == {i \in 1..Len(stdout) : stdout[i].t = "url"}
Closings == {i \in 1..Len(stdout) : stdout[i].t = "]"}

\* C13: with a path of URLs and --to-json, "[" is what was written just
\* before the first element, ", " what was written just before every later
\* element, and "]" is written once, as the last thing, when the end of the
\* input was reached and main returned - and not before.
C13_JsonArrayWrapper ==
    JsonList =>
        /\ \A i \in Elements :
            /\ i > 1
            /\ stdout[i - 1].t = IF \E j \in Elements : j < i THEN ", " ELSE "["
        /\ pc = "done" => Closings = {Len(stdout)}
        /\ pc # "done" => Closings = {}

\* C13 witness: both lines of a two-line input were rendered as JSON and
\* main returned.
C13_Witness ==
    /\ JsonList /\ pc = "done"
    /\ Len(stdout) = 5
    /\ Elements = {2, 4}
    /\ stdout[2].line = 1 /\ stdout[4].line = 2

Openings == {i \in 1..Len(stdout) : stdout[i].t = "["}

\* C17: with a path of URLs and --to-json, when the run is over - main
\* returned or the process exited - the output holds one "[" and one "]",
\* the "[" before and the "]" after every element, whatever the input
\* lines were and whichever of them failed.
C17_BracketsWellFormed ==
    (JsonList /\ pc \in {"done", "exited"}) =>
        \E i, j \in 1..Len(stdout) :
            /\ Openings = {i} /\ Closings = {j}
            /\ i < j
            /\ \A e \in Elements : i < e /\ e < j

(***************************************************************************)
(* SpecRender: UrlRenderer::render applied to a URL value that parse_url   *)
(* returned, once with a template and once as JSON.                        *)
(***************************************************************************)
MaxPieces == 2

RenderRaws ==
    {<<"h","t","t","p",":","/","/","a","/","x">>,
     <<"h","t","t","p",":","/","/","a",":","8","1","/","x">>,
     <<"h","t","t","p","s",":","/","/","a",":","8","0","/">>,
     <<"h","t","t","p","s",":","/","/","u",":","p","@","a","/","b","?","k","=","v","#","f">>,
     <<"s","s","h",":","/","/","a">>,
     <<"s","s","h",":","/","/","u","@","a",":","8","1","/","p">>,
     <<"x",":","/","/","a",":","8","1","/","p">>,
     <<"x",":","/","/","a","?","a","=","1","&","a","=","2">>,
     <<"x",":","/","p">>,
     <<"t","e","l","n","e","t",":","/","/","a">>,
     <<"a">>}
RenderUrls == {parse_url(r).url : r \in RenderRaws}

\* The keys UrlFormatter::fmt knows.
RecognizedKeys ==
    {<<"u","r","l">>, <<"s","c","h","e","m","e">>, <<"h","o","s","t">>,
     <<"p","o","r","t">>, <<"u","s","e","r">>, <<"p","a","s","s","w","o","r","d">>,
     <<"p","a","t","h">>, <<"q","u","e","r","y">>, <<"f","r","a","g","m","e","n","t">>}
Placeholder(key) == <<"{">> \o key \o <<"}">>

\* The pieces the templates of the model are made of: literal text, a
\* placeholder of each recognized key, placeholders of other keys and an
\* opening brace that is never closed.
TextPieces == {<<"a","=">>}
OtherKeyPieces == {Placeholder(<<"o","t","h","e","r">>), Placeholder(<<"P","o","r","t">>), Placeholder(<<>>)}
UnterminatedPieces == {<<"{","p","o","r","t">>, <<"{">>}
Pieces ==
    TextPieces \cup {Placeholder(k) : k \in RecognizedKeys}
    \cup OtherKeyPieces \cup UnterminatedPieces

InitRender ==
    /\ rurl \in {Some(u) : u \in RenderUrls}
    /\ rfmt \in SeqsUpTo(Pieces, MaxPieces)
    /\ rtext = None
    /\ rjson = None
    /\ IdleParse
    /\ IdleTransform
    /\ IdleProcessor
    /\ IdleBuild

\* UrlRenderer::templated(format).render(url, writer)
RenderTemplated ==
    /\ rtext = None
    /\ \E r \in {UrlRenderer_render(Template(Flatten(rfmt)), Unwrap(rurl))} :
        rtext' = Some(r)
    /\ UNCHANGED <<rurl, rfmt, rjson, parseVars, transVars, procVars, buildVars>>

\* UrlRenderer::json().render(url, writer)
RenderJson ==
    /\ rjson = None
    /\ \E r \in {UrlRenderer_render(Json, Unwrap(rurl))} :
        rjson' = Some(r)
    /\ UNCHANGED <<rurl, rfmt, rtext, parseVars, transVars, procVars, buildVars>>

NextRender == RenderTemplated \/ RenderJson
SpecRender == InitRender /\ [][NextRender]_vars

\* The scheme table of the specification (section 4.4).
SchemeTable ==
    {<<<<"h","t","t","p">>, 80>>,
     <<<<"w","s">>, 80>>,
     <<<<"r","t","m","p","t">>, 80>>,
     <<<<"r","t","m","p","t","e">>, 80>>,
     <<<<"h","t","t","p","s">>, 443>>,
     <<<<"w","s","s">>, 443>>,
     <<<<"r","t","m","p","s">>, 443>>,
     <<<<"r","t","m","p","t","s">>, 443>>,
     <<<<"f","t","p">>, 21>>,
     <<<<"f","t","p","s">>, 990>>,
     <<<<"s","c","p">>, 22>>,
     <<<<"s","s","h">>, 22>>,
     <<<<"s","f","t","p">>, 22>>,
     <<<<"s","m","t","p">>, 25>>,
     <<<<"s","m","t","p","s">>, 465>>,
     <<<<"t","e","l","n","e","t">>, 21>>,
     <<<<"l","d","a","p">>, 389>>,
     <<<<"l","d","a","p","s">>, 636>>,
     <<<<"p","o","p","3">>, 110>>,
     <<<<"p","o","p","3","s">>, 995>>,
     <<<<"s","m","b">>, 445>>,
     <<<<"s","m","b","s">>, 445>>,
     <<<<"r","t","s","p">>, 554>>,
     <<<<"m","q","t","t">>, 1883>>,
     <<<<"g","o","p","h","e","r">>, 70>>,
     <<<<"r","t","m","p">>, 1935>>,
     <<<<"r","t","m","p","e">>, 1935>>}
\* The port the claim resolves for a URL, as the text rendered: the explicit
\* port, else the port of the table, else nothing.
ResolvedPortText(u) ==
    IF IsSome(u.port) THEN ToDigits(Unwrap(u.port))
    ELSE IF \E e \in SchemeTable : e[1] = u.scheme
    THEN ToDigits((CHOOSE e \in SchemeTable : e[1] = u.scheme)[2])
    ELSE <<>>
\* The values of the members named key of a JSON document.
MembersOf(doc, key) == {doc[i].value : i \in {j \in 1..Len(doc) : doc[j].key = key}}

\* C11: the {port} key of a template and the port field of the JSON
\* document resolve the port in the same way: the explicit port of the URL
\* if it has one, else the port the scheme table gives for its scheme; with
\* neither, the template renders the empty string and the JSON document has
\* no port member.  The table of the code is the table of the specification.
C11_PortResolution ==
    /\ \A e \in SchemeTable : scheme_port(e[1]) = Some(e[2])
    /\ (IsSome(rtext) /\ rfmt = <<Placeholder(<<"p","o","r","t">>)>>)
        => Unwrap(rtext) = Rendered(ResolvedPortText(Unwrap(rurl)))
    /\ IsSome(rjson)
        => /\ Unwrap(rjson).ok
           /\ MembersOf(Unwrap(rjson).out, "port")
                = (IF ResolvedPortText(Unwrap(rurl)) = <<>> THEN {}
                   ELSE {ResolvedPortText(Unwrap(rurl))})

\* C11 witness: a URL with no explicit port and a scheme the url crate has
\* no default port for (ssh) was rendered with the template {port} and as
\* JSON.
C11_Witness ==
    /\ IsSome(rtext) /\ IsSome(rjson)
    /\ rfmt = <<Placeholder(<<"p","o","r","t">>)>>
    /\ IsNone(Unwrap(rurl).port)
    /\ Unwrap(rurl).scheme = <<"s","s","h">>
    /\ Unwrap(rtext) = Rendered(<<"2","2">>)

\* The pieces the claim lets a template be made of.
ClaimedKeys ==
    {<<"u","r","l">>, <<"s","c","h","e","m","e">>, <<"h","o","s","t">>,
     <<"p","o","r","t">>, <<"u","s","e","r">>, <<"p","a","s","s","w","o","r","d">>,
     <<"p","a","t","h">>, <<"q","u","e","r","y">>, <<"f","r","a","g","m","e","n","t">>}
WellFormedPiece(piece) ==
    \/ "{" \notin Range(piece)
    \/ \E k \in ClaimedKeys : piece = <<"{">> \o k \o <<"}">>
\* The component a key of the claim's "absent" list stands for.
AbsentFor(u, piece) ==
    \/ piece = <<"{">> \o <<"h","o","s","t">> \o <<"}">> /\ ~HasHost(u)
    \/ piece = <<"{">> \o <<"p","a","s","s","w","o","r","d">> \o <<"}">> /\ IsNone(u.password)
    \/ piece = <<"{">> \o <<"q","u","e","r","y">> \o <<"}">> /\ IsNone(u.query)
    \/ piece = <<"{">> \o <<"f","r","a","g","m","e","n","t">> \o <<"}">> /\ IsNone(u.fragment)

MaxFlags == 3

\* A flag as typed, with its value as text.
Flag(name, value) == [flag |-> name, value |-> value]
FlagArgs ==
    {Flag("scheme", <<"w","s","s">>), Flag("host", <<"b">>), Flag("port", <<"8","1">>),
     Flag("path", <<"/","c">>), Flag("user", <<"u">>), Flag("password", <<"p">>),
     Flag("fragment", <<"f">>), Flag("redirect", <<"d">>),
     Flag("append_path", <<"d">>),
     Flag("append_query_string", <<"b","=","0">>), Flag("append_query_string", <<"a">>),
     Flag("clear_query_string", <<>>),
     Flag("allow_query_string", <<"a">>), Flag("deny_query_string", <<"b">>),
     Flag("sort_query_string", <<>>)}

\* The flags that may be typed more than once (Vec fields of Cli), and the
\* argument groups of which at most one member may be typed.
Repeatable == {"append_query_string", "allow_query_string", "deny_query_string"}
Groups ==
    {{"path", "redirect", "append_path"},
     {"clear_query_string", "allow_query_string", "deny_query_string"}}
\* The command lines Cli::parse accepts.
Accepted(argv) ==
    /\ \A i, j \in 1..Len(argv) :
        (i # j /\ argv[i].flag = argv[j].flag) => argv[i].flag \in Repeatable
    /\ \A g \in Groups : Cardinality({argv[i].flag : i \in 1..Len(argv)} \cap g) <= 1

\* Cli::parse (derive(Parser)): each flag typed sets its field, a
\* repeatable one is pushed to its Vec.
SetFlag(c, a) ==
    CASE a.flag = "scheme" -> [c EXCEPT !.scheme = Some(a.value)]
      [] a.flag = "host" -> [c EXCEPT !.host = Some(a.value)]
      [] a.flag = "port" -> [c EXCEPT !.port = Some(ToNat(a.value, 0))]
      [] a.flag = "path" -> [c EXCEPT !.path = Some(a.value)]
      [] a.flag = "user" -> [c EXCEPT !.user = Some(a.value)]
      [] a.flag = "password" -> [c EXCEPT !.password = Some(a.value)]
      [] a.flag = "fragment" -> [c EXCEPT !.fragment = Some(a.value)]
      [] a.flag = "redirect" -> [c EXCEPT !.redirect = Some(a.value)]
      [] a.flag = "append_path" -> [c EXCEPT !.append_path = Some(a.value)]
      [] a.flag = "append_query_string" ->
            [c EXCEPT !.append_query_string = Append(@, a.value)]
      [] a.flag = "clear_query_string" -> [c EXCEPT !.clear_query_string = TRUE]
      [] a.flag = "allow_query_string" ->
            [c EXCEPT !.allow_query_string = Append(@, Regex(FALSE, a.value))]
      [] a.flag = "deny_query_string" ->
            [c EXCEPT !.deny_query_string = Append(@, Regex(FALSE, a.value))]
      [] a.flag = "sort_query_string" -> [c EXCEPT !.sort_query_string = TRUE]
RECURSIVE Cli_parse(_, _)
Cli_parse(argv, c) ==
    IF argv = <<>> THEN c ELSE Cli_parse(Tail(argv), SetFlag(c, Head(argv)))

\* Processor::transform as a function: the list applied from the first,
\* the first Err returned.
RECURSIVE transform(_, _)
transform(transformations, u) ==
    IF transformations = <<>> THEN Ok(u)
    ELSE Pick({IF r.ok THEN transform(Tail(transformations), r.url) ELSE r
               : r \in {apply(Head(transformations), u)}})

InitBuild ==
    /\ bargv \in {argv \in SeqsUpTo(FlagArgs, MaxFlags) : Accepted(argv)}
    /\ blist = None
    /\ IdleParse
    /\ IdleTransform
    /\ IdleProcessor
    /\ IdleRender

\* main: build_transformations(&cli)
BuildTransformations ==
    /\ blist = None
    /\ \E l \in {build_transformations(Cli_parse(bargv, NoFlags))} : blist' = Some(l)
    /\ UNCHANGED <<bargv, parseVars, transVars, procVars, renderVars>>

NextBuild == BuildTransformations
SpecBuild == InitBuild /\ [][NextBuild]_vars

\* The place of an operation in the order the claim gives.
ClaimedOrder ==
    <<"SetScheme", "SetHost", "SetPort", "SetPath", "SetUser", "SetPassword",
      "SetFragment", "Redirect", "AppendPath", "ClearQueryString",
      "AllowQueryString", "DenyQueryString", "AppendQueryString", "SortQueryString">>
Rank(op) == CHOOSE i \in 1..Len(ClaimedOrder) : ClaimedOrder[i] = op
\* The operation a flag stands for.
FlagNames ==
    <<"scheme", "host", "port", "path", "user", "password", "fragment", "redirect",
      "append_path", "clear_query_string", "allow_query_string", "deny_query_string",
      "append_query_string", "sort_query_string">>
OpOfFlag(flag) == ClaimedOrder[CHOOSE i \in 1..Len(FlagNames) : FlagNames[i] = flag]
\* The pairs typed with -q, in the order typed.
IsAppendFlag(a) == a.flag = "append_query_string"
TypedPair(text) ==
    <<Upto(text, FirstIn(text, {"="}) - 1), From(text, FirstIn(text, {"="}) + 1)>>
TypedPairs(argv) ==
    [i \in 1..Len(SelectSeq(argv, IsAppendFlag)) |->
        TypedPair(SelectSeq(argv, IsAppendFlag)[i].value)]
IsAppendOp(t) == t.op = "AppendQueryString"
\* The URL the list built is tried on.
BuildUrl == parse_url(<<"w","s",":","/","/","a","/","b","?","b","=","1","&","a","=","2">>).url

\* C15: the list built from the flags typed is in the order scheme, host,
\* port, path, user, password, fragment, redirect, append-path, clear,
\* allow, deny, append, sort, in whatever order they were typed: one
\* operation for each flag typed (one for a repeated allow or deny flag),
\* one append for each -q in the order typed.  Applied to a URL, the list
\* leaves every pair typed with -q in the query though a clear, allow or
\* deny flag was typed, and with the sort flag the typed pairs are sorted
\* with the rest.
C15_BuildOrder ==
    IsSome(blist) =>
        LET l == Unwrap(blist)
            out == transform(l, BuildUrl) IN
        /\ \A i, j \in 1..Len(l) :
            i < j => \/ Rank(l[i].op) < Rank(l[j].op)
                     \/ l[i].op = "AppendQueryString" /\ l[j].op = "AppendQueryString"
        /\ {l[i].op : i \in 1..Len(l)} = {OpOfFlag(bargv[i].flag) : i \in 1..Len(bargv)}
        /\ [i \in 1..Len(SelectSeq(l, IsAppendOp)) |->
                <<SelectSeq(l, IsAppendOp)[i].name, SelectSeq(l, IsAppendOp)[i].value>>]
             = TypedPairs(bargv)
        /\ out.ok
        /\ \A i \in 1..Len(TypedPairs(bargv)) :
            \E k \in 1..Len(UrlQueryPairs(out.url)) :
                UrlQueryPairs(out.url)[k] = TypedPairs(bargv)[i]
        /\ (\E i \in 1..Len(bargv) : bargv[i].flag = "clear_query_string")
            => SameMultiset(UrlQueryPairs(out.url), TypedPairs(bargv))
        /\ (\E i \in 1..Len(bargv) : bargv[i].flag = "sort_query_string")
            => NonDecreasing(UrlQueryPairs(out.url))

\* C15 witness: the sort flag was typed first, then -q b=0, then a deny
\* flag whose pattern matches the key b; the list built is deny, append,
\* sort.
C15_Witness ==
    /\ IsSome(blist)
    /\ Len(bargv) = 3
    /\ bargv[1].flag = "sort_query_string"
    /\ bargv[2] = Flag("append_query_string", <<"b","=","0">>)
    /\ bargv[3].flag = "deny_query_string"
    /\ [i \in 1..3 |-> Unwrap(blist)[i].op]
         = <<"DenyQueryString", "AppendQueryString", "SortQueryString">>
=============================================================================
